---- MODULE Spec2Model ----
(***************************************************************************)
(* Model of create_imaging_areas.py: the hierarchy inference of the        *)
(* Subsection Generator (infer_hierarchy), the footprint builder and the   *)
(* centroid generator of the Imaging Polygon Generator (build_polygon,     *)
(* generate_centroids) and the square merge of the Tasking AOI Generator.  *)
(*                                                                         *)
(* Geometry is modelled on an integer grid whose unit is buffer_tolerance  *)
(* (0.0005 degrees, about 55 m): a geometry is None, the empty polygon, or *)
(* an axis-aligned rectangle (of zero area when a side has length 0),      *)
(* optionally enlarged by a rounded margin r, which is what buffer(r)      *)
(* produces.  Areas are exact integers; the area of an intersection with a *)
(* buffered geometry is kept in hundredths of a square unit.               *)
(***************************************************************************)
EXTENDS Integers, Sequences, FiniteSets, TLC

VARIABLES
    caller,          \* the dataset the caller passes to infer_hierarchy
    given,           \* snapshot of that dataset taken when the call starts
    gdf,             \* infer_hierarchy's local dataset (the copy it works on)
    buffered_geoms,  \* infer_hierarchy's list of buffered geometries
    pc,              \* position in infer_hierarchy: call, loop, done, raised
    i,               \* index of the outer loop (1-based position in gdf)
    run,             \* 1: first call; 2: call on the first call's own output
    first,           \* the dataset returned by the first call
    argsorted,       \* what the first call's sort saw and produced
    tab4,            \* Subsection Generator: mapping, preview and export
    fp,              \* state of one build_polygon call
    gc,              \* state of one generate_centroids call
    aoi              \* state of one Tasking AOI merge

vars == <<caller, given, gdf, buffered_geoms, pc, i, run, first, argsorted,
          tab4, fp, gc, aoi>>

hvars == <<caller, given, gdf, buffered_geoms, pc, i, run, first, argsorted,
           tab4>>

-----------------------------------------------------------------------------
(* Bounds of the model                                                     *)

MaxRecs == 3
MaxLines == 3
MaxPts == 3

-----------------------------------------------------------------------------
(* Geometry                                                                *)

\* buffer_tolerance, the unit of the grid (0.0005 degrees)
Tol == 1
\* min_overlap_ratio = 0.02, in percent
MinOverlapPct == 2
\* area, in hundredths of a square unit, of the quarter disc of radius Tol
\* that buffer() puts on a corner (16 segments per quarter circle)
CornerArea100 == 78

NoneGeom == [kind |-> "none", x0 |-> 0, y0 |-> 0, x1 |-> 0, y1 |-> 0, r |-> 0]
EmptyGeom == [kind |-> "empty", x0 |-> 0, y0 |-> 0, x1 |-> 0, y1 |-> 0, r |-> 0]
Rect(x0, y0, x1, y1) ==
    [kind |-> "poly", x0 |-> x0, y0 |-> y0, x1 |-> x1, y1 |-> y1, r |-> 0]

\* float("nan"), the area pandas reports for a missing geometry
NaN == -1

IsNone(g) == g.kind = "none"
IsEmpty(g) == g.kind = "empty"

\* geometry.area
Area(g) ==
    IF IsNone(g) THEN NaN
    ELSE IF IsEmpty(g) THEN 0
    ELSE (g.x1 - g.x0) * (g.y1 - g.y0)

\* geometry.buffer(d): None stays None, empty stays empty, a polygon gets a
\* rounded margin of width d
Buffer(g, d) == IF g.kind = "poly" THEN [g EXCEPT !.r = d] ELSE g

Max(a, b) == IF a >= b THEN a ELSE b
Min(a, b) == IF a <= b THEN a ELSE b

\* gap between two closed intervals (0 when they meet)
Gap(a0, a1, b0, b1) == Max(0, Max(b0 - a1, a0 - b1))

\* parent_geom.intersects(geom): some point of geom lies within distance
\* p.r of the rectangle of p
Intersects(p, g) ==
    LET dx == Gap(p.x0, p.x1, g.x0, g.x1)
        dy == Gap(p.y0, p.y1, g.y0, g.y1)
    IN  dx * dx + dy * dy <= p.r * p.r

\* area of the intersection of the boxes [a0,a1]x[b0,b1] and g
BoxArea(a0, b0, a1, b1, g) ==
    Max(0, Min(a1, g.x1) - Max(a0, g.x0)) * Max(0, Min(b1, g.y1) - Max(b0, g.y0))

\* parent_geom.intersection(geom).area in hundredths: the buffered rectangle
\* is its horizontal and vertical extensions plus four corner quarter discs;
\* geom is grid aligned, so it covers a corner cell wholly or not at all
IntersectionArea100(p, g) ==
    LET horiz == BoxArea(p.x0 - p.r, p.y0, p.x1 + p.r, p.y1, g)
        vert == BoxArea(p.x0, p.y0 - p.r, p.x1, p.y1 + p.r, g)
        core == BoxArea(p.x0, p.y0, p.x1, p.y1, g)
        corners == BoxArea(p.x0 - p.r, p.y0 - p.r, p.x0, p.y0, g)
                   + BoxArea(p.x1, p.y0 - p.r, p.x1 + p.r, p.y0, g)
                   + BoxArea(p.x0 - p.r, p.y1, p.x0, p.y1 + p.r, g)
                   + BoxArea(p.x1, p.y1, p.x1 + p.r, p.y1 + p.r, g)
    IN  100 * (horiz + vert - core) + CornerArea100 * corners

-----------------------------------------------------------------------------
(* Datasets                                                                *)

\* Python's None in the parent_field_name column
None == "<None>"

\* a dataset is [columns, rows]; a row is [id, data] where data maps every
\* column name to the row's value and id is the identity of the record
Dataset(columns, rows) == [columns |-> columns, rows |-> rows]

\* the geometries used as inputs: three nested squares of 10, 5 and 1 km
\* (180, 90 and 18 units), two 1 km squares beside the large one, at a gap
\* of one and of two tolerances, and a zero-area polygon inside the large one
SquareA == Rect(0, 0, 180, 180)
SquareB == Rect(45, 45, 135, 135)
SquareC == Rect(81, 81, 99, 99)
SquareD == Rect(181, 0, 199, 18)
SquareE == Rect(182, 0, 200, 18)
LineL == Rect(90, 80, 90, 100)

Geoms == {NoneGeom, EmptyGeom, LineL, SquareA, SquareB, SquareC, SquareD, SquareE}

\* one record of an input dataset: its geometry, its Name when the dataset
\* has that column, and the value 7 in a column called "_area" when the
\* dataset has one
InputRow(columns, k, g, name) ==
    [id |-> k,
     data |-> [c \in columns |->
                 CASE c = "geometry" -> g
                   [] c = "Name" -> name
                   [] OTHER -> 7]]

\* the names of the records of an input: none (no Name column), one per
\* record, or the same for all
NamePatterns == {"absent", "unique", "same"}

InputName(pattern, k) ==
    IF pattern = "unique" THEN "P" \o ToString(k) ELSE "X"

InputColumns(pattern, userArea) ==
    {"geometry"} \cup (IF pattern = "absent" THEN {} ELSE {"Name"})
                 \cup (IF userArea THEN {"_area"} ELSE {})

InputDatasets ==
    { Dataset(InputColumns(pattern, userArea),
              [k \in 1..n |-> InputRow(InputColumns(pattern, userArea), k,
                                       gs[k], InputName(pattern, k))]) :
        <<pattern, userArea, n, gs>> \in
            { <<pt, ua, m, g>> \in
                NamePatterns \X BOOLEAN \X (0..MaxRecs) \X [1..MaxRecs -> Geoms] :
                \A k \in 1..MaxRecs : k > m => g[k] = NoneGeom } }

\* row with column col set to val (the column is added when missing)
WithCol(row, col, val) ==
    [row EXCEPT !.data = [c \in DOMAIN row.data \cup {col} |->
                            IF c = col THEN val ELSE row.data[c]]]

\* row without column col
DropCol(row, col) ==
    [row EXCEPT !.data = [c \in DOMAIN row.data \ {col} |-> row.data[c]]]

-----------------------------------------------------------------------------
(* infer_hierarchy                                                         *)

\* gdf[name_col] = ["Field_" + str(i) for i in range(len(gdf))]
DefaultName(k) == "Field_" \o ToString(k - 1)

\* the permutations of 1..n
Perms(n) == { p \in [1..n -> 1..n] : \A a, b \in 1..n : p[a] = p[b] => a = b }

\* sort_values("_area", ascending=False) with the default kind="quicksort":
\* the rows come out in descending order of the key, rows whose key is NaN
\* last and in their original order; the order of rows with equal keys is
\* whatever the (unstable) sort produces.  p[k] is the original position of
\* the row that ends up at position k.
SortOrders(keys) ==
    LET n == Len(keys)
    IN  { p \in Perms(n) :
            \A a, b \in 1..n : a < b =>
                /\ keys[p[a]] = NaN => keys[p[b]] = NaN
                /\ (keys[p[a]] = NaN /\ keys[p[b]] = NaN) => p[a] < p[b]
                /\ (keys[p[a]] # NaN /\ keys[p[b]] # NaN) => keys[p[a]] >= keys[p[b]] }

\* whether buffered parent_geom qualifies as the parent of geom (line 321);
\* the caller has excluded a zero geom.area
Qualifies(parent_geom, geom) ==
    \/ 100 * IntersectionArea100(parent_geom, geom) >= MinOverlapPct * 100 * Area(geom)
    \/ Intersects(parent_geom, geom)

\* outcome codes of the inner loop
NoParent == 0
Raised == -1

\* the inner loop "for j in range(i)" from position j on: the position of
\* the parent found, NoParent, or Raised when the division by geom.area
\* raises ZeroDivisionError
RECURSIVE Scan(_, _, _, _)
Scan(rows, buf, k, j) ==
    IF j >= k THEN NoParent
    ELSE IF IsNone(buf[j]) \/ IsEmpty(buf[j]) THEN Scan(rows, buf, k, j + 1)
    ELSE IF Area(rows[k].data["geometry"]) = 0 THEN Raised
    ELSE IF Qualifies(buf[j], rows[k].data["geometry"]) THEN j
    ELSE Scan(rows, buf, k, j + 1)

\* the inner loop run from the nearest smaller position down to the first
RECURSIVE ScanDown(_, _, _, _)
ScanDown(rows, buf, k, j) ==
    IF j < 1 THEN NoParent
    ELSE IF IsNone(buf[j]) \/ IsEmpty(buf[j]) THEN ScanDown(rows, buf, k, j - 1)
    ELSE IF Area(rows[k].data["geometry"]) = 0 THEN Raised
    ELSE IF Qualifies(buf[j], rows[k].data["geometry"]) THEN j
    ELSE ScanDown(rows, buf, k, j - 1)

\* FirstParent with the scan reversed: the smallest enclosing record wins
NearestParent(rows, buf, k) ==
    IF IsNone(rows[k].data["geometry"]) \/ IsEmpty(rows[k].data["geometry"])
    THEN NoParent
    ELSE ScanDown(rows, buf, k, k - 1)

\* one iteration of "for i, row in gdf.iterrows()": a record without
\* geometry is skipped, any other is scanned against the records before it
FirstParent(rows, buf, k) ==
    IF IsNone(rows[k].data["geometry"]) \/ IsEmpty(rows[k].data["geometry"])
    THEN NoParent
    ELSE Scan(rows, buf, k, 1)

\* lines 305-312: copy, default names, classification defaults, area, sort,
\* buffer
Prepare ==
    /\ pc = "call"
    /\ LET n == Len(caller.rows)
           named == IF "Name" \in caller.columns THEN caller.rows
                    ELSE [k \in 1..n |-> WithCol(caller.rows[k], "Name", DefaultName(k))]
           init == [k \in 1..n |->
                      WithCol(WithCol(WithCol(named[k],
                          "parent_field_name", None),
                          "is_top_level", TRUE),
                          "_area", Area(named[k].data["geometry"]))]
           keys == [k \in 1..n |-> init[k].data["_area"]]
       IN  \E p \in SortOrders(keys) :
             /\ (run = 2 /\ keys = argsorted.keys) => p = argsorted.perm
             /\ argsorted' = IF run = 1 THEN [keys |-> keys, perm |-> p] ELSE argsorted
             /\ gdf' = Dataset(caller.columns \cup
                                 {"Name", "parent_field_name", "is_top_level", "_area"},
                               [k \in 1..n |-> init[p[k]]])
             /\ buffered_geoms' = [k \in 1..n |-> Buffer(init[p[k]].data["geometry"], Tol)]
    /\ i' = 1
    /\ pc' = "loop"
    /\ UNCHANGED <<caller, given, run, first, tab4, fp, gc, aoi>>

\* lines 313-324: the body of the outer loop for record i
Iterate ==
    /\ pc = "loop"
    /\ i <= Len(gdf.rows)
    /\ LET j == FirstParent(gdf.rows, buffered_geoms, i)
       IN  IF j = Raised
           THEN /\ pc' = "raised"
                /\ UNCHANGED <<gdf, i>>
           ELSE /\ pc' = "loop"
                /\ i' = i + 1
                /\ gdf' = IF j = NoParent THEN gdf
                          ELSE [gdf EXCEPT !.rows[i] =
                                  WithCol(WithCol(@, "parent_field_name",
                                                  gdf.rows[j].data["Name"]),
                                          "is_top_level", FALSE)]
    /\ UNCHANGED <<caller, given, buffered_geoms, run, first, argsorted, tab4, fp, gc, aoi>>

\* lines 325-326: drop the "_area" column and return
Return ==
    /\ pc = "loop"
    /\ i > Len(gdf.rows)
    /\ gdf' = Dataset(gdf.columns \ {"_area"},
                      [k \in 1..Len(gdf.rows) |-> DropCol(gdf.rows[k], "_area")])
    /\ pc' = "done"
    /\ UNCHANGED <<caller, given, buffered_geoms, i, run, first, argsorted, tab4, fp, gc, aoi>>

\* the caller passes the returned dataset to infer_hierarchy again
Rerun ==
    /\ pc = "done"
    /\ run = 1
    /\ tab4.pc = "idle"
    /\ first' = gdf
    /\ caller' = gdf
    /\ given' = gdf
    /\ run' = 2
    /\ pc' = "call"
    /\ UNCHANGED <<gdf, buffered_geoms, i, argsorted, tab4, fp, gc, aoi>>

-----------------------------------------------------------------------------
(* Subsection Generator (Tab 4) for one dataset, after infer_hierarchy has *)
(* returned it.  The row index of a record is its position in gdf.  Names  *)
(* in the text inputs are left at their defaults; the sub-field check      *)
(* boxes are the user's choice.                                            *)

Tab4Idle == [pc |-> "idle", top |-> <<>>, sub |-> <<>>, exported |-> <<>>]

\* gdf[gdf["is_top_level"]]
TopRows == { k \in 1..Len(gdf.rows) : gdf.rows[k].data["is_top_level"] }

\* gdf[gdf["parent_field_name"] == orig_name]
SubsOf(orig_name) ==
    { k \in 1..Len(gdf.rows) : gdf.rows[k].data["parent_field_name"] = orig_name }

\* the rows listed as sub-fields of some top-level field
SubRows == UNION { SubsOf(gdf.rows[t].data["Name"]) : t \in TopRows }

\* the default of the text input of sub-field k: f"{new_name} - S{s_idx+1}"
SubName(k) ==
    LET parent == gdf.rows[k].data["parent_field_name"]
    IN  parent \o " - S" \o ToString(Cardinality({ m \in SubsOf(parent) : m <= k }))

\* lines 376-404: ds_map for the dataset.  Two top-level fields of the same
\* name give two text inputs the same key, which Streamlit refuses
T4_BuildMapping ==
    /\ pc = "done"
    /\ run = 1
    /\ tab4.pc = "idle"
    /\ "Name" \in given.columns
    /\ Len(gdf.rows) > 0
    /\ IF \E a, b \in TopRows : a # b /\ gdf.rows[a].data["Name"] = gdf.rows[b].data["Name"]
       THEN tab4' = [tab4 EXCEPT !.pc = "raised"]
       ELSE \E inc \in [SubRows -> BOOLEAN] :
              tab4' = [tab4 EXCEPT
                         !.pc = "mapped",
                         !.top = [nm \in { gdf.rows[t].data["Name"] : t \in TopRows } |->
                                    [name |-> nm, included |-> TRUE]],
                         !.sub = [k \in SubRows |->
                                    [name |-> SubName(k), included |-> inc[k]]]]
    /\ UNCHANGED <<caller, given, gdf, buffered_geoms, pc, i, run, first, argsorted,
                   fp, gc, aoi>>

\* m_data of a row (lines 417-421 and 455-458): the row's entry of ds_map,
\* or None when it has none
HasEntry(k) ==
    IF gdf.rows[k].data["is_top_level"]
    THEN gdf.rows[k].data["Name"] \in DOMAIN tab4.top
    ELSE k \in DOMAIN tab4.sub

Entry(k) ==
    IF gdf.rows[k].data["is_top_level"]
    THEN tab4.top[gdf.rows[k].data["Name"]]
    ELSE tab4.sub[k]

\* "if m_data and m_data['included']"
Shown(k) == HasEntry(k) /\ Entry(k).included

\* lines 406-436: the map preview reads row.geometry.exterior of every row
\* shown, which fails on a row without geometry
T4_Preview ==
    /\ tab4.pc = "mapped"
    /\ tab4' = [tab4 EXCEPT !.pc =
                  IF \E k \in 1..Len(gdf.rows) :
                        Shown(k) /\ IsNone(gdf.rows[k].data["geometry"])
                  THEN "raised" ELSE "previewed"]
    /\ UNCHANGED <<caller, given, gdf, buffered_geoms, pc, i, run, first, argsorted,
                   fp, gc, aoi>>

\* isinstance(geom, Polygon)
IsPolygon(g) == g.kind \in {"poly", "empty"}

\* lines 453-486 from row k on: the placemarks written, in row order
RECURSIVE Placemarks(_)
Placemarks(k) ==
    IF k > Len(gdf.rows) THEN <<>>
    ELSE IF Shown(k) /\ IsPolygon(gdf.rows[k].data["geometry"])
    THEN <<[idx |-> k,
            name |-> Entry(k).name,
            is_top_level |-> gdf.rows[k].data["is_top_level"],
            parent_field_name |->
                IF gdf.rows[k].data["parent_field_name"] = None THEN "N/A"
                ELSE gdf.rows[k].data["parent_field_name"]]>> \o Placemarks(k + 1)
    ELSE Placemarks(k + 1)

\* lines 442-496: "Export Enriched KMZ" is pressed
T4_Export ==
    /\ tab4.pc = "previewed"
    /\ tab4' = [tab4 EXCEPT !.pc = "exported", !.exported = Placemarks(1)]
    /\ UNCHANGED <<caller, given, gdf, buffered_geoms, pc, i, run, first, argsorted,
                   fp, gc, aoi>>

Idle == [pc |-> "idle"]

Init ==
    /\ caller \in InputDatasets
    /\ given = caller
    /\ gdf = Dataset({}, <<>>)
    /\ buffered_geoms = <<>>
    /\ pc = "call"
    /\ i = 1
    /\ run = 1
    /\ first = Dataset({}, <<>>)
    /\ argsorted = [keys |-> <<>>, perm |-> <<>>]
    /\ tab4 = Tab4Idle
    /\ fp = Idle
    /\ gc = Idle
    /\ aoi = Idle

Next ==
    \/ Prepare \/ Iterate \/ Return \/ Rerun
    \/ T4_BuildMapping \/ T4_Preview \/ T4_Export

Spec == Init /\ [][Next]_vars

-----------------------------------------------------------------------------
(* Reading a dataset                                                       *)

GeomAt(ds, k) == ds.rows[k].data["geometry"]
NameAt(ds, k) == ds.rows[k].data["Name"]
ParentAt(ds, k) == ds.rows[k].data["parent_field_name"]
TopAt(ds, k) == ds.rows[k].data["is_top_level"]

\* the positions of ds that hold geometry g
PosOf(ds, g) == { k \in 1..Len(ds.rows) : GeomAt(ds, k) = g }

\* the call was given exactly the three nested squares, in any order
NestedInput ==
    /\ Len(given.rows) = 3
    /\ \A g \in {SquareA, SquareB, SquareC} : Cardinality(PosOf(given, g)) = 1

\* the names of the returned records are pairwise different
DistinctNames ==
    \A a, b \in 1..Len(gdf.rows) : NameAt(gdf, a) = NameAt(gdf, b) => a = b

-----------------------------------------------------------------------------
(* C1: for the three nested squares A (10 km), B (5 km, centred in A) and  *)
(* C (1 km, centred in B), infer_hierarchy returns A top-level without     *)
(* parent, B with parent A and C with parent B.                            *)
C1_NestedParentIsNearest ==
    (pc = "done" /\ NestedInput) =>
        \A a \in PosOf(gdf, SquareA), b \in PosOf(gdf, SquareB), c \in PosOf(gdf, SquareC) :
            /\ TopAt(gdf, a) /\ ParentAt(gdf, a) = None
            /\ ParentAt(gdf, b) = NameAt(gdf, a)
            /\ ParentAt(gdf, c) = NameAt(gdf, b)

(* C1 as amended: for the three nested squares, infer_hierarchy returns A  *)
(* top-level without parent and both B and C with parent A, the largest    *)
(* square, which is the first one scanned.                                 *)
C1_NestedParentIsLargest ==
    (pc = "done" /\ NestedInput) =>
        \A a \in PosOf(gdf, SquareA), b \in PosOf(gdf, SquareB), c \in PosOf(gdf, SquareC) :
            /\ TopAt(gdf, a) /\ ParentAt(gdf, a) = None
            /\ ~TopAt(gdf, b) /\ ParentAt(gdf, b) = NameAt(gdf, a)
            /\ ~TopAt(gdf, c) /\ ParentAt(gdf, c) = NameAt(gdf, a)

C1_Witness ==
    /\ pc = "done" /\ run = 1 /\ NestedInput /\ DistinctNames
    /\ \E a \in PosOf(gdf, SquareA), b \in PosOf(gdf, SquareB), c \in PosOf(gdf, SquareC) :
           /\ ParentAt(gdf, b) = NameAt(gdf, a)
           /\ ParentAt(gdf, c) = NameAt(gdf, a)
           /\ ParentAt(gdf, c) # NameAt(gdf, b)

-----------------------------------------------------------------------------
\* buffered record j qualifies as the parent of record k, as the
\* specification words it
QualifiesFor(j, k) ==
    /\ ~IsNone(buffered_geoms[j]) /\ ~IsEmpty(buffered_geoms[j])
    /\ \/ Intersects(buffered_geoms[j], GeomAt(gdf, k))
       \/ /\ Area(GeomAt(gdf, k)) > 0
          /\ 100 * IntersectionArea100(buffered_geoms[j], GeomAt(gdf, k))
                >= MinOverlapPct * 100 * Area(GeomAt(gdf, k))

Qualifying(k) == { j \in 1..(k - 1) : QualifiesFor(j, k) }

Least(S) == CHOOSE m \in S : \A o \in S : m <= o

HasGeometry(ds, k) == ~IsNone(GeomAt(ds, k)) /\ ~IsEmpty(GeomAt(ds, k))

(* C2: for every input, infer_hierarchy gives every record with non-empty  *)
(* geometry the first record before it in area-descending order whose      *)
(* buffered geometry is non-empty and intersects it or overlaps it by the  *)
(* minimum ratio as its one parent, and leaves it top-level without parent *)
(* when there is none.                                                     *)
C2_FirstQualifyingParent ==
    /\ pc # "raised"
    /\ pc = "done" =>
         \A k \in 1..Len(gdf.rows) : HasGeometry(gdf, k) =>
             IF Qualifying(k) = {}
             THEN TopAt(gdf, k) /\ ParentAt(gdf, k) = None
             ELSE ~TopAt(gdf, k) /\ ParentAt(gdf, k) = NameAt(gdf, Least(Qualifying(k)))

(* C3: infer_hierarchy never fails on a dataset with null, empty or        *)
(* zero-area geometries; each such record stays top-level without parent   *)
(* and no null or empty record is chosen as a parent.                      *)
C3_DegenerateSkipped ==
    /\ pc # "raised"
    /\ pc = "done" =>
         \A k \in 1..Len(gdf.rows) :
            /\ (~HasGeometry(gdf, k) \/ Area(GeomAt(gdf, k)) = 0) =>
                   (TopAt(gdf, k) /\ ParentAt(gdf, k) = None)
            /\ ParentAt(gdf, k) # None =>
                   \E j \in 1..(k - 1) : /\ HasGeometry(gdf, j)
                                         /\ NameAt(gdf, j) = ParentAt(gdf, k)

(* C4: infer_hierarchy is idempotent: run on its own output with the same  *)
(* tolerances, it gives every record the same is_top_level and the same    *)
(* parent as the first run did.                                            *)
C4_Idempotent ==
    (pc = "done" /\ run = 2) =>
        \A a \in 1..Len(gdf.rows), b \in 1..Len(first.rows) :
            gdf.rows[a].id = first.rows[b].id =>
                /\ TopAt(gdf, a) = TopAt(first, b)
                /\ ParentAt(gdf, a) = ParentAt(first, b)

\* the records that the parent reference of record k names
Referents(ds, k) ==
    { m \in 1..Len(ds.rows) : ParentAt(ds, k) # None /\ NameAt(ds, m) = ParentAt(ds, k) }

\* the records reached from the set S by following parent references
RECURSIVE Ancestors(_, _, _)
Ancestors(ds, S, steps) ==
    IF steps = 0 THEN S
    ELSE Ancestors(ds, S \cup UNION { Referents(ds, m) : m \in S }, steps - 1)

(* C5: for every input, also with repeated names, the parent references    *)
(* infer_hierarchy writes form no cycle: the record a reference names has  *)
(* an area at least that of the referring record, and following the        *)
(* references from a record never leads back to it.                        *)
C5_NoCycleByName ==
    pc = "done" =>
        \A k \in 1..Len(gdf.rows) :
            /\ \A m \in Referents(gdf, k) : Area(GeomAt(gdf, m)) >= Area(GeomAt(gdf, k))
            /\ k \notin Ancestors(gdf, Referents(gdf, k), Len(gdf.rows))

(* C10: infer_hierarchy leaves the caller's dataset unchanged and returns  *)
(* the same records with geometry, name and every other column unchanged;  *)
(* only the order and the columns parent_field_name and is_top_level       *)
(* differ.                                                                 *)
C10_OnlyClassificationDiffers ==
    /\ caller = given
    /\ pc = "done" =>
         /\ gdf.columns = given.columns \cup {"Name", "parent_field_name", "is_top_level"}
         /\ Len(gdf.rows) = Len(given.rows)
         /\ \A m \in 1..Len(given.rows) :
              \E k \in 1..Len(gdf.rows) :
                 /\ gdf.rows[k].id = given.rows[m].id
                 /\ \A c \in (given.columns \cap gdf.columns)
                               \ {"parent_field_name", "is_top_level"} :
                        gdf.rows[k].data[c] = given.rows[m].data[c]

\* the position the record at position k of gdf had in the dataset passed in
InputPos(k) == CHOOSE m \in 1..Len(given.rows) : given.rows[m].id = gdf.rows[k].id

(* C11: records of equal area keep their original input order after the    *)
(* area-descending sort, so among equal-area candidates the one that came  *)
(* first in the input is scanned first and wins as parent.                 *)
C11_TiesInInputOrder ==
    pc \in {"loop", "done", "raised"} =>
        /\ \A a, b \in 1..Len(gdf.rows) :
              (a < b /\ Area(GeomAt(gdf, a)) = Area(GeomAt(gdf, b))) =>
                  InputPos(a) < InputPos(b)
        /\ pc = "done" =>
              \A k \in 1..Len(gdf.rows) : \A j \in Qualifying(k) :
                  Area(GeomAt(gdf, j)) = Area(GeomAt(gdf, Least(Qualifying(k)))) =>
                      InputPos(Least(Qualifying(k))) <= InputPos(j)

\* every check box of the mapping is at its default
AllIncluded == \A k \in DOMAIN tab4.sub : tab4.sub[k].included

(* C12: once the mapping of a processed dataset is built, every record has *)
(* a mapping entry (top-level records by name, the others by row index),   *)
(* so an export with every check box at its default writes every Polygon   *)
(* or MultiPolygon record, also one whose parent is not top-level.         *)
C12_EveryRecordExported ==
    /\ tab4.pc \in {"mapped", "previewed", "exported"} =>
          \A k \in 1..Len(gdf.rows) : HasEntry(k)
    /\ (tab4.pc = "exported" /\ AllIncluded) =>
          \A k \in 1..Len(gdf.rows) : IsPolygon(GeomAt(gdf, k)) =>
              \E e \in 1..Len(tab4.exported) : tab4.exported[e].idx = k

-----------------------------------------------------------------------------
(* build_polygon (Tab 1).  Latitude and longitude are in half degrees,     *)
(* lengths in km as entered, ring coordinates in metres.  The ring is kept *)
(* in the local frame of the centroid, before rotate() turns it by the     *)
(* orbit angle and the transformer maps it back to degrees.                *)

\* the hierarchy variables while another function is exercised
HierarchyIdle ==
    /\ caller = Dataset({}, <<>>)
    /\ given = Dataset({}, <<>>)
    /\ gdf = Dataset({}, <<>>)
    /\ buffered_geoms = <<>>
    /\ pc = "idle"
    /\ i = 1
    /\ run = 1
    /\ first = Dataset({}, <<>>)
    /\ argsorted = [keys |-> <<>>, perm |-> <<>>]
    /\ tab4 = Tab4Idle

\* Python's int(): truncation toward zero of num / den, den > 0
IntTrunc(num, den) == IF num >= 0 THEN num \div den ELSE -((-num) \div den)

\* utm_zone = int((lon + 180) / 6) + 1, lon in half degrees
UtmZone(lon) == IntTrunc(lon + 360, 12) + 1

\* epsg = 32600 + utm_zone if is_northern else 32700 + utm_zone
Epsg(lat, utm_zone) == IF lat >= 0 THEN 32600 + utm_zone ELSE 32700 + utm_zone

\* Polygon(coords).exterior.coords: shapely closes a ring that is not closed
CloseRing(pts) == IF pts[1] = pts[Len(pts)] THEN pts ELSE Append(pts, pts[1])

\* lines 94-98 without the rotation: the rectangle around the origin, moved
\* sideways by x_offset_m
LocalRing(length_km, width_km, x_offset_m) ==
    LET dx == width_km * 500
        dy == length_km * 500
        rect == CloseRing(<< <<-dx, -dy>>, <<-dx, dy>>, <<dx, dy>>, <<dx, -dy>> >>)
    IN  [k \in 1..Len(rect) |-> <<rect[k][1] + x_offset_m, rect[k][2]>>]

FootprintInputs ==
    [pc : {"call"},
     lat : {-180, -1, 0, 109, 180},
     lon : (-360)..360,
     length_km : {-1, 0, 1, 70},
     width_km : {-1, 0, 1, 20},
     x_offset_m : {0},
     utm_zone : {0},
     epsg : {0},
     ring : {<<>>}]

\* lines 87-92: orbit angle, zone, hemisphere, EPSG code and transformers
FP_SelectZone ==
    /\ fp.pc = "call"
    /\ fp' = [fp EXCEPT !.pc = "zoned",
                        !.utm_zone = UtmZone(fp.lon),
                        !.epsg = Epsg(fp.lat, UtmZone(fp.lon))]
    /\ UNCHANGED <<hvars, gc, aoi>>

\* lines 93-99: the rectangle is built, moved and returned as a ring
FP_BuildRing ==
    /\ fp.pc = "zoned"
    /\ fp' = [fp EXCEPT !.pc = "returned",
                        !.ring = LocalRing(fp.length_km, fp.width_km, fp.x_offset_m)]
    /\ UNCHANGED <<hvars, gc, aoi>>

InitFootprint ==
    /\ HierarchyIdle
    /\ fp \in FootprintInputs
    /\ gc = Idle
    /\ aoi = Idle

NextFootprint == FP_SelectZone \/ FP_BuildRing

SpecFootprint == InitFootprint /\ [][NextFootprint]_vars

(* C6: for every centroid with longitude in [-180, 180], both ends         *)
(* included, the zone build_polygon chooses is floor((lon + 180) / 6) + 1  *)
(* and lies in 1..60, so the EPSG code is in 32601..32660 for lat >= 0 and *)
(* in 32701..32760 for lat < 0.                                            *)
C6_ZoneInRange ==
    fp.pc \in {"zoned", "returned"} =>
        /\ fp.utm_zone = ((fp.lon + 360) \div 12) + 1
        /\ fp.utm_zone \in 1..60
        /\ fp.lat >= 0 => fp.epsg \in 32601..32660
        /\ fp.lat < 0 => fp.epsg \in 32701..32760

(* C7: build_polygon fails, and returns no ring, whenever length or width  *)
(* is zero or negative.                                                    *)
C7_RejectsNonPositive ==
    fp.pc = "returned" => (fp.length_km > 0 /\ fp.width_km > 0)

-----------------------------------------------------------------------------
(* generate_centroids (Tab 1).  Degrees are kept in tenths, offsets in     *)
(* metres.  A line of the text area is the sequence of the pieces          *)
(* split(",") cuts it into.                                                *)

MODE_COUNTRY == "Generate batch of polygons"
MODE_MANUAL == "Coordinates-based input"

\* COUNTRY_CENTROIDS, as <<lat, lon>> in tenths of a degree
COUNTRY_CENTROIDS ==
    [UK |-> <<545, -25>>, France |-> <<465, 25>>, Germany |-> <<510, 100>>,
     Poland |-> <<520, 190>>, Romania |-> <<458, 249>>, Bulgaria |-> <<427, 255>>,
     Hungary |-> <<471, 195>>, Spain |-> <<403, -37>>, Italy |-> <<430, 125>>,
     Austria |-> <<476, 141>>, CzechRepublic |-> <<498, 155>>,
     Netherlands |-> <<522, 53>>, Australia |-> <<-250, 1330>>,
     NewZealand |-> <<-410, 1740>>, Canada |-> <<560, -1060>>,
     UnitedStates |-> <<398, -986>>]

\* the slider "Number of polygons" goes from 0 to MaxPolygons
MaxPolygons == 50

spacing_m == 10000

\* the pieces float() accepts, with their value in tenths
FloatText == {"0.00", "54.5", "-2.5", " 10.0"}

Float(text) ==
    CASE text = "0.00" -> 0
      [] text = "54.5" -> 545
      [] text = "-2.5" -> -25
      [] text = " 10.0" -> 100

\* "not line.strip()": the line holds nothing but white space
IsBlank(line) == Len(line) = 1 /\ line[1] \in {"", "  "}

\* the lines a user may type: blank ones, well-formed ones, one with a
\* single piece, one with three pieces and one whose first piece is no number
Lines ==
    { <<"">>, <<"  ">>, <<"0.00", "0.00">>, <<"54.5", "-2.5">>, <<"54.5", " 10.0">>,
      <<"54.5">>, <<"54.5", "-2.5", "0.00">>, <<"abc", "0.00">> }

\* x_offset of iteration i of "for i in range(n_polygons)" (lines 113-115),
\* with the offset index not advanced by one
XOffsetFromZero(k) ==
    LET offset_index == k \div 2
        sign == IF k % 2 = 0 THEN -1 ELSE 1
    IN  sign * offset_index * spacing_m

\* x_offset of iteration i of "for i in range(n_polygons)" (lines 113-115)
XOffset(k) ==
    LET offset_index == (k \div 2) + 1
        sign == IF k % 2 = 0 THEN -1 ELSE 1
    IN  sign * offset_index * spacing_m

Centroid(lat, lon, x_offset) == [lat |-> lat, lon |-> lon, x_offset |-> x_offset]

CentroidInputs ==
    { [pc |-> "call", mode |-> MODE_COUNTRY, country |-> c, n_polygons |-> n,
       centroids_input |-> <<>>, k |-> 0, centroids |-> <<>>] :
        c \in DOMAIN COUNTRY_CENTROIDS, n \in 0..MaxPolygons }
    \cup
    { [pc |-> "call", mode |-> MODE_MANUAL, country |-> "UK", n_polygons |-> 10,
       centroids_input |-> t, k |-> 0, centroids |-> <<>>] :
        t \in UNION { [1..m -> Lines] : m \in 0..MaxLines } }

\* lines 104-108: one line of the text area
GC_ManualLine ==
    /\ gc.pc = "call"
    /\ gc.mode = MODE_MANUAL
    /\ gc.k < Len(gc.centroids_input)
    /\ LET line == gc.centroids_input[gc.k + 1]
       IN  IF IsBlank(line)
           THEN gc' = [gc EXCEPT !.k = @ + 1]
           ELSE IF Len(line) # 2 \/ line[1] \notin FloatText \/ line[2] \notin FloatText
           THEN gc' = [gc EXCEPT !.pc = "raised"]
           ELSE gc' = [gc EXCEPT !.k = @ + 1,
                                 !.centroids = Append(@, Centroid(Float(line[1]),
                                                                  Float(line[2]), 0))]
    /\ UNCHANGED <<hvars, fp, aoi>>

\* lines 110-116: one iteration of the batch loop
GC_BatchStep ==
    /\ gc.pc = "call"
    /\ gc.mode = MODE_COUNTRY
    /\ gc.k < gc.n_polygons
    /\ gc' = [gc EXCEPT !.k = @ + 1,
                        !.centroids = Append(@, Centroid(COUNTRY_CENTROIDS[gc.country][1],
                                                         COUNTRY_CENTROIDS[gc.country][2],
                                                         XOffset(gc.k)))]
    /\ UNCHANGED <<hvars, fp, aoi>>

\* line 117: return centroids
GC_Return ==
    /\ gc.pc = "call"
    /\ gc.k = (IF gc.mode = MODE_MANUAL THEN Len(gc.centroids_input) ELSE gc.n_polygons)
    /\ gc' = [gc EXCEPT !.pc = "returned"]
    /\ UNCHANGED <<hvars, fp, aoi>>

InitCentroids ==
    /\ HierarchyIdle
    /\ fp = Idle
    /\ gc \in CentroidInputs
    /\ aoi = Idle

NextCentroids == GC_ManualLine \/ GC_BatchStep \/ GC_Return

SpecCentroids == InitCentroids /\ [][NextCentroids]_vars

Abs(a) == IF a < 0 THEN -a ELSE a

\* ceil(k / 2)
CeilHalf(k) == (k + 1) \div 2

(* C8: in batch mode with count n in 0..50 generate_centroids returns      *)
(* exactly n entries, all at the base centroid, the i-th with a lateral    *)
(* offset of magnitude 10000 * ceil(i/2) m and of sign opposite to the     *)
(* next one's; in manual mode every parsed centroid has lateral offset 0.  *)
C8_BatchOffsets ==
    /\ (gc.pc = "returned" /\ gc.mode = MODE_COUNTRY) =>
          /\ Len(gc.centroids) = gc.n_polygons
          /\ \A k \in 1..Len(gc.centroids) :
                /\ gc.centroids[k].lat = COUNTRY_CENTROIDS[gc.country][1]
                /\ gc.centroids[k].lon = COUNTRY_CENTROIDS[gc.country][2]
                /\ Abs(gc.centroids[k].x_offset) = 10000 * CeilHalf(k)
                /\ k < Len(gc.centroids) =>
                      (gc.centroids[k].x_offset < 0) # (gc.centroids[k + 1].x_offset < 0)
    /\ (gc.pc # "idle" /\ gc.mode = MODE_MANUAL) =>
          \A k \in 1..Len(gc.centroids) : gc.centroids[k].x_offset = 0

C8_Witness ==
    /\ gc.pc = "returned" /\ gc.mode = MODE_COUNTRY /\ gc.n_polygons = 10
    /\ Len(gc.centroids) = 10
    /\ gc.centroids[1].x_offset = -10000
    /\ gc.centroids[2].x_offset = 10000
    /\ gc.centroids[5].x_offset = -30000

-----------------------------------------------------------------------------
(* The merge of the Tasking AOI Generator (Tab 3).  Coordinates are UTM    *)
(* metres; the points lie on a grid of pitch half_size, so every square is *)
(* made of four grid cells and a cell <<u, v>> is the square               *)
(* [u, u + 1] x [v, v + 1] in units of half_size.                          *)

half_size == 4500

\* the projected points of the CSV rows
GridPoints == { <<half_size * a, half_size * b>> : a \in 0..3, b \in 0..2 }

\* lines 241-246: the square around a point
Square(pt) ==
    [kind |-> "poly", x0 |-> pt[1] - half_size, y0 |-> pt[2] - half_size,
     x1 |-> pt[1] + half_size, y1 |-> pt[2] + half_size, r |-> 0]

\* the grid cells a square covers
CellsOf(sq) ==
    { <<u, v>> \in ((sq.x0 \div half_size)..((sq.x1 \div half_size) - 1))
                   \X ((sq.y0 \div half_size)..((sq.y1 \div half_size) - 1)) : TRUE }

\* two cells that share a corner or an edge
AdjacentOrDiagonal(c, d) ==
    c # d /\ Abs(c[1] - d[1]) <= 1 /\ Abs(c[2] - d[2]) <= 1

\* two cells that share an edge: the interior of their union is connected
Adjacent(c, d) == Abs(c[1] - d[1]) + Abs(c[2] - d[2]) = 1

\* the cells connected to the set S
RECURSIVE Grow(_, _)
Grow(cells, S) ==
    LET N == S \cup { c \in cells : \E d \in S : Adjacent(c, d) }
    IN  IF N = S THEN S ELSE Grow(cells, N)

\* unary_union(geometries): the parts of the union, each as its set of
\* cells; one part is a Polygon, several are the geoms of a MultiPolygon
RECURSIVE Parts(_)
Parts(cells) ==
    IF cells = {} THEN {}
    ELSE LET part == Grow(cells, {CHOOSE c \in cells : TRUE})
         IN  {part} \cup Parts(cells \ part)

UnaryUnion(squares) == Parts(UNION { CellsOf(squares[k]) : k \in 1..Len(squares) })

AoiInputs ==
    { [pc |-> "call", pts |-> t, polygons |-> <<>>, merged_polys |-> {}] :
        t \in UNION { [1..m -> GridPoints] : m \in 0..MaxPts } }

\* lines 240-248: one square per point
AOI_BuildSquares ==
    /\ aoi.pc = "call"
    /\ aoi' = [aoi EXCEPT !.pc = "squares",
                          !.polygons = [k \in 1..Len(aoi.pts) |-> Square(aoi.pts[k])]]
    /\ UNCHANGED <<hvars, fp, gc>>

\* lines 249-253: the union and its parts
AOI_Merge ==
    /\ aoi.pc = "squares"
    /\ aoi' = [aoi EXCEPT !.pc = "merged",
                          !.merged_polys = UnaryUnion(aoi.polygons)]
    /\ UNCHANGED <<hvars, fp, gc>>

InitMerge ==
    /\ HierarchyIdle
    /\ fp = Idle
    /\ gc = Idle
    /\ aoi \in AoiInputs

NextMerge == AOI_BuildSquares \/ AOI_Merge

SpecMerge == InitMerge /\ [][NextMerge]_vars

\* squares a and b lie in the same output region
SameRegion(a, b) ==
    \E reg \in aoi.merged_polys :
        CellsOf(aoi.polygons[a]) \subseteq reg /\ CellsOf(aoi.polygons[b]) \subseteq reg

\* the closed squares have a point in common
Touch(a, b) ==
    /\ Abs(aoi.pts[a][1] - aoi.pts[b][1]) <= 2 * half_size
    /\ Abs(aoi.pts[a][2] - aoi.pts[b][2]) <= 2 * half_size

\* the squares have only a corner point in common
CornerOnly(a, b) ==
    /\ Abs(aoi.pts[a][1] - aoi.pts[b][1]) = 2 * half_size
    /\ Abs(aoi.pts[a][2] - aoi.pts[b][2]) = 2 * half_size

\* the squares overlap or share a piece of an edge
EdgeOrOverlap(a, b) == Touch(a, b) /\ ~CornerOnly(a, b)

\* the squares linked to those of S by a chain of pairs related by Link
RECURSIVE Chain(_, _, _)
Chain(Link(_, _), S, steps) ==
    IF steps = 0 THEN S
    ELSE Chain(Link, S \cup { b \in 1..Len(aoi.pts) : \E a \in S : Link(a, b) }, steps - 1)

Groups(Link(_, _)) ==
    { Chain(Link, {a}, Len(aoi.pts)) : a \in 1..Len(aoi.pts) }

(* C9: two of the equal squares are in the same output region exactly when *)
(* a chain of squares that overlap or touch, along an edge or only at a    *)
(* corner, links them, and there are as many regions as such groups.       *)
C9_TouchingMerges ==
    aoi.pc = "merged" =>
        /\ \A a, b \in 1..Len(aoi.pts) :
              SameRegion(a, b) <=> b \in Chain(Touch, {a}, Len(aoi.pts))
        /\ Cardinality(aoi.merged_polys) = Cardinality(Groups(Touch))

(* C9 as amended: two of the equal squares are in the same output region   *)
(* exactly when a chain of squares that overlap or share a piece of an     *)
(* edge links them, and there are as many regions as such groups; squares  *)
(* that meet only at a corner stay in separate regions unless such a chain *)
(* links them.                                                             *)
C9_EdgeTouchingMerges ==
    aoi.pc = "merged" =>
        /\ \A a, b \in 1..Len(aoi.pts) :
              SameRegion(a, b) <=> b \in Chain(EdgeOrOverlap, {a}, Len(aoi.pts))
        /\ Cardinality(aoi.merged_polys) = Cardinality(Groups(EdgeOrOverlap))

C9_Witness ==
    /\ aoi.pc = "merged"
    /\ \E a, b, c \in 1..Len(aoi.pts) :
          /\ CornerOnly(a, b) /\ ~SameRegion(a, b)
          /\ b # c /\ EdgeOrOverlap(b, c) /\ ~Touch(a, c)
          /\ SameRegion(b, c)
    /\ Cardinality(aoi.merged_polys) = 2

====
